---- MODULE Spec2Model ----
(***************************************************************************)
(* Model of server/app.py: the POST /api/contact handler `contact`, which  *)
(* validates a quote-request form, builds an email and relays it through   *)
(* SMTP.  Text is a sequence of string chunks; the characters of a form    *)
(* field or of an environment value are chunks of one character, so that   *)
(* trimming, line splitting and integer parsing are computed, not assumed. *)
(* A Python value is a record: None, a str, or an int.                     *)
(***************************************************************************)
EXTENDS Integers, Sequences, FiniteSets, TLC

VARIABLES env, request, pc, response, raised, smtpLog, pending, msg

vars == <<env, request, pc, response, raised, smtpLog, pending, msg>>

(***************************************************************************)
(* Python values                                                           *)
(***************************************************************************)
None == [k |-> "none"]

Str(s) == [k |-> "str", s |-> s]

Num(n) == [k |-> "int", n |-> n]

\* bool(v): None, "" and 0 are falsy.
Truthy(v) ==
    CASE v.k = "none" -> FALSE
      [] v.k = "str" -> Len(v.s) > 0
      [] v.k = "int" -> v.n # 0

Digits == <<"0", "1", "2", "3", "4", "5", "6", "7", "8", "9">>

DigitValue(c) == (CHOOSE i \in 1..Len(Digits) : Digits[i] = c) - 1

IsDigit(c) == \E i \in 1..Len(Digits) : Digits[i] = c

\* str(v) of a str is the str itself, of a one-digit int its decimal digit.
str(v) == IF v.k = "str" THEN v.s ELSE <<Digits[v.n + 1]>>

Whitespace == {" ", "\n", "\r", "\t"}

LineBreaks == {"\n", "\r"}

RECURSIVE lstrip(_)
lstrip(s) == IF s # <<>> /\ Head(s) \in Whitespace THEN lstrip(Tail(s)) ELSE s

RECURSIVE rstrip(_)
rstrip(s) ==
    IF s # <<>> /\ s[Len(s)] \in Whitespace THEN rstrip(SubSeq(s, 1, Len(s) - 1)) ELSE s

\* str.strip(): leading and trailing whitespace removed.
strip(s) == rstrip(lstrip(s))

RECURSIVE ParseDigits(_, _)
ParseDigits(s, acc) ==
    IF s = <<>> THEN acc ELSE ParseDigits(Tail(s), acc * 10 + DigitValue(Head(s)))

\* int(text) accepts decimal digits with whitespace around them; any other
\* text raises ValueError.
IsDecimal(s) == strip(s) # <<>> /\ \A i \in 1..Len(strip(s)) : IsDigit(strip(s)[i])

int(s) == ParseDigits(strip(s), 0)

\* sep.join(names)
RECURSIVE join(_, _)
join(sep, names) ==
    IF names = <<>> THEN <<>>
    ELSE IF Len(names) = 1 THEN <<names[1]>>
    ELSE <<names[1], sep>> \o join(sep, Tail(names))

\* len(text.splitlines()): "\n", "\r" and "\r\n" each end a line, and a text that
\* does not end with one of them has a last, unterminated line.
splitlines(s) ==
    IF s = <<>> THEN 0
    ELSE Cardinality({i \in 1..Len(s) :
                        /\ s[i] \in LineBreaks
                        /\ ~(s[i] = "\r" /\ i < Len(s) /\ s[i + 1] = "\n")})
         + (IF s[Len(s)] \in LineBreaks THEN 0 ELSE 1)

(***************************************************************************)
(* The request body and the process environment                            *)
(***************************************************************************)
FieldNames == {"name", "email", "message", "service", "phone"}

\* The longest run of spaces in a form text.
MaxBlank == 1

Spaces(k) == [i \in 1..k |-> " "]

BlankTexts == {Spaces(k) : k \in 1..MaxBlank}

\* Form texts: empty, blank, plain, and one with a line break inside it.
TextValues == {<<>>, <<"a">>, <<"\n", "a">>} \cup BlankTexts

\* A key that is absent and a JSON null both read as None through data.get.
FieldValues == {None} \cup {Str(t) : t \in TextValues}

PhoneValues ==
    {None, Str(<<>>), Str(<<" ", "5">>), Num(5)} \cup {Str(t) : t \in BlankTexts}

NoFields == [f \in FieldNames |-> None]

\* "object": a JSON object; "array": a non-empty JSON array such as [1];
\* "invalid": a body that is no JSON, or a falsy JSON value.
Bodies ==
    {[kind |-> "object",
      fields |-> [name |-> n, email |-> e, message |-> m, service |-> s, phone |-> p]] :
        n \in FieldValues, e \in FieldValues, m \in FieldValues, s \in FieldValues,
        p \in PhoneValues}
    \cup {[kind |-> "array", fields |-> NoFields], [kind |-> "invalid", fields |-> NoFields]}

NoBody == [kind |-> "none", fields |-> NoFields]

Unset == [set |-> FALSE, v |-> <<>>]

Set(v) == [set |-> TRUE, v |-> v]

\* MAIL_PORT values: two ports, zero, a word, and the empty text of "MAIL_PORT=".
PortTexts == {<<"4", "6", "5">>, <<"5", "8", "7">>, <<"0">>, <<"a", "b", "c">>, <<>>}

Environments ==
    {[MAIL_HOST |-> h, MAIL_PORT |-> p, MAIL_USER |-> u, MAIL_PASS |-> w, TO_EMAIL |-> r] :
        h \in {Unset, Set(<<>>), Set(<<"smtp.example.com">>)},
        p \in {Unset} \cup {Set(x) : x \in PortTexts},
        u \in {Unset, Set(<<"relay@example.com">>)},
        w \in {Unset, Set(<<"secret">>)},
        r \in {Unset, Set(<<"owner@example.com">>)}}

\* os.getenv(name, default)
getenv(e, name, default) == IF e[name].set THEN e[name].v ELSE default

(***************************************************************************)
(* contact(): validation and formatting                                    *)
(***************************************************************************)
\* request.get_json(silent=True) or {}: a body that is no JSON, or a falsy
\* one, becomes the empty dict; a non-empty array stays an array.
get_json(req) == IF req.kind = "invalid" THEN [kind |-> "object", fields |-> NoFields] ELSE req

required == <<"name", "email", "message", "service">>

\* Mutant: the value is tested without being trimmed.
IsMissing_NoStrip(data, f) == ~Truthy(data[f])

\* not (data.get(f) and str(data.get(f)).strip())
IsMissing(data, f) == ~(Truthy(data[f]) /\ Truthy(Str(strip(str(data[f])))))

missing(data) == SelectSeq(required, LAMBDA f : IsMissing(data, f))

\* data.get("phone") or ""
PhoneOrEmpty(data) == IF Truthy(data["phone"]) THEN data["phone"] ELSE Str(<<>>)

\* .strip() exists on a str only: an int raises AttributeError.
PhoneRaises(data) == PhoneOrEmpty(data).k # "str"

phone(data) == strip(PhoneOrEmpty(data).s)

\* The character U+2014 (em dash), which a TLA+ string cannot hold.
EmDash == "<U+2014>"

Subject(data) == <<"New Quote Request ", EmDash, " ">> \o str(data["service"])

\* Mutant: the phone is printed as it is, with no placeholder.
PhoneLine_NoPlaceholder(data) == <<"Phone: ">> \o phone(data)

\* phone or the em dash
PhoneLine(data) == <<"Phone: ">> \o (IF phone(data) # <<>> THEN phone(data) ELSE <<EmDash>>)

Body(data) ==
    <<"Time (UTC): ", "<utcnow>", "Z", "\n">>
    \o <<"Name: ">> \o str(data["name"]) \o <<"\n">>
    \o <<"Email: ">> \o str(data["email"]) \o <<"\n">>
    \o PhoneLine(data) \o <<"\n">>
    \o <<"Service: ">> \o str(data["service"]) \o <<"\n", "\n">>
    \o <<"Message:", "\n">> \o str(data["message"]) \o <<"\n">>

(***************************************************************************)
(* contact(): mail configuration                                           *)
(***************************************************************************)
host(e) == getenv(e, "MAIL_HOST", <<>>)

PortText(e) == getenv(e, "MAIL_PORT", <<"4", "6", "5">>)

\* int(os.getenv("MAIL_PORT", "465")) raises ValueError on a text that is no integer.
PortRaises(e) == ~IsDecimal(PortText(e))

port(e) == int(PortText(e))

user(e) == getenv(e, "MAIL_USER", <<>>)

pwd(e) == getenv(e, "MAIL_PASS", <<>>)

to(e) == getenv(e, "TO_EMAIL", <<>>)

\* all([host, port, user, pwd, to])
Configured(e) ==
    /\ host(e) # <<>>
    /\ port(e) # 0
    /\ user(e) # <<>>
    /\ pwd(e) # <<>>
    /\ to(e) # <<>>

(***************************************************************************)
(* contact(): the email message                                            *)
(***************************************************************************)
\* EmailMessage.__setitem__ under the default policy raises ValueError for a
\* header value of more than one line.
HeaderRejected(value) == splitlines(value) > 1

ReplyTo(data) == IF Truthy(data["email"]) THEN str(data["email"]) ELSE <<>>

BuildRaises(data, e) ==
    \/ HeaderRejected(Subject(data))
    \/ HeaderRejected(user(e))
    \/ HeaderRejected(to(e))
    \/ HeaderRejected(ReplyTo(data))

EmailMessage(data, e) ==
    [built |-> TRUE, Subject |-> Subject(data), From |-> user(e), To |-> to(e),
     ReplyTo |-> ReplyTo(data), content |-> Body(data)]

NoMessage ==
    [built |-> FALSE, Subject |-> <<>>, From |-> <<>>, To |-> <<>>, ReplyTo |-> <<>>,
     content |-> <<>>]

(***************************************************************************)
(* contact(): responses                                                    *)
(***************************************************************************)
\* jsonify(success=..., error=... or message=...), status
Response(status, success, key, text) ==
    [status |-> status, success |-> success, key |-> key, text |-> text]

NoResponse == Response(0, FALSE, "none", <<>>)

\* str(e) of the exception a failed step raises.
Describe(step) ==
    CASE step = "connect" -> "connection refused"
      [] step = "starttls" -> "STARTTLS extension not supported by server."
      [] step = "login" -> "authentication failed"
      [] step = "send_message" -> "recipient refused"
      [] step = "QUIT" -> "unexpected reply to QUIT"
      [] step = "header" ->
           "Header values may not contain linefeed or carriage return characters"

MissingError(data) ==
    Response(400, FALSE, "error", <<"Missing: ">> \o join(", ", missing(data)))

NotConfigured == Response(500, FALSE, "error", <<"Mail server not configured">>)

\* Mutant: the response does not say what failed.
SendFailed_Generic(step) == Response(500, FALSE, "error", <<"Email send failed">>)

\* except Exception as e
SendFailed(step) == Response(500, FALSE, "error", <<"Email send failed: ", Describe(step)>>)

Sent == Response(200, TRUE, "message", <<"Quote request sent">>)

(***************************************************************************)
(* contact(): from the request to the first network call                   *)
(***************************************************************************)
Outcome(at, resp, exc, m) == [pc |-> at, response |-> resp, raised |-> exc, msg |-> m]

\* The try block up to the connection: the message is built, or a header is refused.
Build(data, e) ==
    IF BuildRaises(data, e)
    THEN Outcome("done", SendFailed("header"), "none", NoMessage)
    ELSE Outcome("connect", NoResponse, "none", EmailMessage(data, e))

\* After validation: phone, subject and body, then the configuration.
Prepare(data, e) ==
    IF PhoneRaises(data)
    THEN Outcome("done", NoResponse, "AttributeError", NoMessage)
    ELSE IF PortRaises(e)
    THEN Outcome("done", NoResponse, "ValueError", NoMessage)
    ELSE IF ~Configured(e)
    THEN Outcome("done", NotConfigured, "none", NoMessage)
    ELSE Build(data, e)

\* Mutant: the configuration is read and checked before the payload.
Start_ConfigFirst(req, e) ==
    IF PortRaises(e)
    THEN Outcome("done", NoResponse, "ValueError", NoMessage)
    ELSE IF ~Configured(e)
    THEN Outcome("done", NotConfigured, "none", NoMessage)
    ELSE IF get_json(req).kind # "object"
    THEN Outcome("done", NoResponse, "AttributeError", NoMessage)
    ELSE IF missing(get_json(req).fields) # <<>>
    THEN Outcome("done", MissingError(get_json(req).fields), "none", NoMessage)
    ELSE Prepare(get_json(req).fields, e)

\* data.get on a body that is no dict raises AttributeError.
Start(req, e) ==
    LET json == get_json(req)
    IN IF json.kind # "object"
       THEN Outcome("done", NoResponse, "AttributeError", NoMessage)
       ELSE IF missing(json.fields) # <<>>
       THEN Outcome("done", MissingError(json.fields), "none", NoMessage)
       ELSE Prepare(json.fields, e)

(***************************************************************************)
(* The handler, step by step.  pc is the handler's position: "idle" before *)
(* the request, then the network call it is about to make, then "done"     *)
(* once it has returned a response or an exception has left it.  smtpLog   *)
(* lists the calls made on the connection, each with whether it succeeded. *)
(* Every request meets the server in the same state (the handler keeps     *)
(* nothing and the environment is only read), so a behaviour is one        *)
(* request.                                                                *)
(***************************************************************************)
Ev(op, ok) == [op |-> op, ok |-> ok]

Init ==
    /\ env \in Environments
    /\ request = NoBody
    /\ pc = "idle"
    /\ response = NoResponse
    /\ raised = "none"
    /\ smtpLog = <<>>
    /\ pending = "none"
    /\ msg = NoMessage

\* POST /api/contact arrives and the handler runs up to its first network call.
Contact(req) ==
    /\ pc = "idle"
    /\ \E out \in {Start(req, env)} :
          /\ request' = req
          /\ pc' = out.pc
          /\ response' = out.response
          /\ raised' = out.raised
          /\ msg' = out.msg
    /\ UNCHANGED <<env, smtpLog, pending>>

\* The except clause: the handler returns the failure as a 500 response.
Fail(step) ==
    /\ response' = SendFailed(step)
    /\ pc' = "done"

\* smtplib.SMTP_SSL(host, port) on port 465, smtplib.SMTP(host, port) otherwise.
\* A failed constructor leaves no connection behind.
Connect(ok) ==
    /\ pc = "connect"
    /\ smtpLog' = Append(smtpLog, Ev(IF port(env) = 465 THEN "SMTP_SSL" ELSE "SMTP", ok))
    /\ IF ok
       THEN /\ pc' = IF port(env) = 465 THEN "login" ELSE "starttls"
            /\ UNCHANGED response
       ELSE Fail("connect")
    /\ UNCHANGED <<env, request, raised, pending, msg>>

\* Mutant: a refused upgrade is not noticed and the session goes on in plaintext.
StartTls_Ignored(ok) ==
    /\ pc = "starttls"
    /\ smtpLog' = Append(smtpLog, Ev("starttls", ok))
    /\ pc' = "login"
    /\ UNCHANGED <<env, request, response, raised, pending, msg>>

\* smtp.starttls(), outside the with block: its exception goes straight to
\* the except clause and nothing closes the connection.
StartTls(ok) ==
    /\ pc = "starttls"
    /\ smtpLog' = Append(smtpLog, Ev("starttls", ok))
    /\ IF ok
       THEN /\ pc' = "login"
            /\ UNCHANGED response
       ELSE Fail("starttls")
    /\ UNCHANGED <<env, request, raised, pending, msg>>

\* smtp.login(user, pwd): an exception leaves the with block through __exit__.
Login(ok) ==
    /\ pc = "login"
    /\ smtpLog' = Append(smtpLog, Ev("login", ok))
    /\ pc' = IF ok THEN "send_message" ELSE "exit"
    /\ pending' = IF ok THEN "none" ELSE "login"
    /\ UNCHANGED <<env, request, response, raised, msg>>

\* smtp.send_message(msg)
SendMessage(ok) ==
    /\ pc = "send_message"
    /\ smtpLog' = Append(smtpLog, Ev("send_message", ok))
    /\ pc' = "exit"
    /\ pending' = IF ok THEN "none" ELSE "send_message"
    /\ UNCHANGED <<env, request, response, raised, msg>>

QuitReplies == {"221", "other", "disconnected"}

\* Mutant: the session ends with QUIT and the connection is never closed.
Exit_NoClose(reply) ==
    /\ pc = "exit"
    /\ smtpLog' = Append(smtpLog, Ev("QUIT", reply = "221"))
    /\ response' = IF reply = "other" THEN SendFailed("QUIT")
                   ELSE IF pending # "none" THEN SendFailed(pending)
                   ELSE Sent
    /\ pc' = "done"
    /\ UNCHANGED <<env, request, raised, pending, msg>>

\* SMTP.__exit__: QUIT, whose reply other than 221 raises, while a lost
\* connection is swallowed; close() runs in the finally clause.  Then the
\* handler returns: the exception of __exit__, else the one pending from the
\* with block, else success.
Exit(reply) ==
    /\ pc = "exit"
    /\ smtpLog' = smtpLog \o <<Ev("QUIT", reply = "221"), Ev("close", TRUE)>>
    /\ response' = IF reply = "other" THEN SendFailed("QUIT")
                   ELSE IF pending # "none" THEN SendFailed(pending)
                   ELSE Sent
    /\ pc' = "done"
    /\ UNCHANGED <<env, request, raised, pending, msg>>

\* A request arrives only at an idle handler: the guard of Contact is
\* repeated here so that the bodies are enumerated in that state only.
Next ==
    \/ pc = "idle" /\ \E req \in Bodies : Contact(req)
    \/ \E ok \in BOOLEAN : Connect(ok)
    \/ \E ok \in BOOLEAN : StartTls(ok)
    \/ \E ok \in BOOLEAN : Login(ok)
    \/ \E ok \in BOOLEAN : SendMessage(ok)
    \/ \E reply \in QuitReplies : Exit(reply)

Spec == Init /\ [][Next]_vars

(***************************************************************************)
(* Vocabulary of the properties, stated on the request, the environment,   *)
(* the response and the log, independently of the handler's own operators. *)
(***************************************************************************)
Done == pc = "done"

Range(s) == {s[i] : i \in 1..Len(s)}

RequiredFields == {"name", "email", "message", "service"}

\* A payload is a mapping from field names to strings: a JSON object, or a
\* body that decodes to the empty mapping.
IsPayload == request.kind \in {"object", "invalid"}

\* Absent, empty, or nothing but whitespace.
Blank(v) == v.k = "none" \/ (v.k = "str" /\ \A i \in 1..Len(v.s) : v.s[i] \in Whitespace)

BlankFields == {f \in RequiredFields : Blank(request.fields[f])}

InvalidPayload == IsPayload /\ BlankFields # {}

\* All four required fields non-blank, and phone a string when it is there.
ValidPayload == IsPayload /\ BlankFields = {} /\ request.fields["phone"].k # "int"

PortIs465 == ~env["MAIL_PORT"].set \/ env["MAIL_PORT"].v = <<"4", "6", "5">>

PortIsOther == env["MAIL_PORT"].set /\ env["MAIL_PORT"].v = <<"5", "8", "7">>

Given(name) == env[name].set /\ env[name].v # <<>>

OthersSet == Given("MAIL_HOST") /\ Given("MAIL_USER") /\ Given("MAIL_PASS") /\ Given("TO_EMAIL")

\* Host, username, password and recipient given, and a port that is the
\* default or a positive number.
CompleteConfig == OthersSet /\ (PortIs465 \/ PortIsOther)

NoLineBreak(v) == v.k # "str" \/ \A i \in 1..Len(v.s) : v.s[i] \notin {"\n", "\r"}

\* The two fields that go into headers (Subject, Reply-To) are single lines.
HeadersBuildable == NoLineBreak(request.fields["service"]) /\ NoLineBreak(request.fields["email"])

IsConnect(ev) == ev.op \in {"SMTP_SSL", "SMTP"}

Count(ops) == Cardinality({i \in 1..Len(smtpLog) : smtpLog[i].op \in ops})

AllAccepted == \A i \in 1..Len(smtpLog) : smtpLog[i].ok

Succeeded(op) == \E i \in 1..Len(smtpLog) : smtpLog[i].op = op /\ smtpLog[i].ok

IsError(status, text) ==
    /\ response.status = status
    /\ response.success = FALSE
    /\ response.key = "error"
    /\ response.text = text

IsSuccess ==
    /\ response.status = 200
    /\ response.success = TRUE
    /\ response.key = "message"
    /\ response.text = <<"Quote request sent">>

NoNetwork == smtpLog = <<>>

(***************************************************************************)
(* C1: a payload with a required field absent, empty or blank is answered  *)
(* 400 with success=false and an error naming at least one of the blank    *)
(* fields; no SMTP call is made and no email is built, whatever the mail    *)
(* configuration.                                                          *)
(***************************************************************************)
C1_InvalidRejected ==
    InvalidPayload =>
        /\ Done
        /\ raised = "none"
        /\ response.status = 400
        /\ response.success = FALSE
        /\ response.key = "error"
        /\ Head(response.text) = "Missing: "
        /\ Range(Tail(response.text)) \cap BlankFields # {}
        /\ NoNetwork
        /\ ~msg.built

\* The empty name of the spec's scenario, on a server with no mail configuration.
C1_Witness ==
    /\ request.kind = "object"
    /\ request.fields["name"] = Str(<<>>)
    /\ BlankFields = {"name"}
    /\ ~env["MAIL_HOST"].set
    /\ response.status = 400
    /\ response.text = <<"Missing: ", "name">>

(***************************************************************************)
(* C2, as stated: a valid payload, a complete configuration and a server   *)
(* that accepts every step give exactly one session (one connection, one   *)
(* login, one message, closed) and the response 200 "Quote request sent".  *)
(***************************************************************************)
OneSession ==
    /\ Count({"SMTP_SSL", "SMTP"}) = 1
    /\ Count({"login"}) = 1
    /\ Count({"send_message"}) = 1
    /\ Count({"close"}) = 1
    /\ smtpLog[Len(smtpLog)].op = "close"
    /\ Succeeded("login") /\ Succeeded("send_message")

C2_Original ==
    (Done /\ ValidPayload /\ CompleteConfig /\ AllAccepted) => (OneSession /\ IsSuccess)

(***************************************************************************)
(* C2, amended: the same, for a payload whose service and email hold no    *)
(* line break, so that the message headers can be built.                   *)
(***************************************************************************)
C2_OneSessionThenSent ==
    (Done /\ ValidPayload /\ HeadersBuildable /\ CompleteConfig /\ AllAccepted)
        => (OneSession /\ IsSuccess)

C2_Witness ==
    /\ Done
    /\ ValidPayload /\ HeadersBuildable /\ CompleteConfig /\ AllAccepted
    /\ PortIsOther
    /\ IsSuccess
    /\ Len(smtpLog) = 6

(***************************************************************************)
(* C3: with a valid payload, a configuration that lacks the host, the      *)
(* username, the password or the recipient, or whose port is 0, gives 500  *)
(* "Mail server not configured" and no connection.  (MAIL_PORT left unset  *)
(* is the default 465, not a missing value.)                               *)
(***************************************************************************)
PortIsZero == env["MAIL_PORT"].set /\ env["MAIL_PORT"].v = <<"0">>

C3_MissingConfigIs500 ==
    (ValidPayload /\ (~OthersSet \/ PortIsZero)) =>
        /\ Done
        /\ IsError(500, <<"Mail server not configured">>)
        /\ NoNetwork

(***************************************************************************)
(* C4: with a valid payload and a complete configuration, a session that   *)
(* fails at connect, STARTTLS, login or send ends in a 500 response with   *)
(* success=false whose error text carries the description of a failure of  *)
(* that session, and no exception leaves the handler.                      *)
(***************************************************************************)
SessionSteps == {"SMTP_SSL", "SMTP", "starttls", "login", "send_message"}

StepFailed == \E i \in 1..Len(smtpLog) : smtpLog[i].op \in SessionSteps /\ ~smtpLog[i].ok

\* What the exception of a refused call says.
TextOf(op) ==
    CASE op \in {"SMTP_SSL", "SMTP"} -> "connection refused"
      [] op = "starttls" -> "STARTTLS extension not supported by server."
      [] op = "login" -> "authentication failed"
      [] op = "send_message" -> "recipient refused"
      [] op = "QUIT" -> "unexpected reply to QUIT"

FailureTexts == {TextOf(smtpLog[i].op) : i \in {j \in 1..Len(smtpLog) : ~smtpLog[j].ok}}

C5_ClosedOnReturn ==
    Done =>
        \A i \in 1..Len(smtpLog) :
            (IsConnect(smtpLog[i]) /\ smtpLog[i].ok)
                => \E j \in (i + 1)..Len(smtpLog) : smtpLog[j].op = "close"

(***************************************************************************)
(* C6: for every body and every environment the handler ends with a JSON   *)
(* response of status 200, 400 or 500; no exception leaves it.             *)
(***************************************************************************)
C6_NoUnhandledFault ==
    Done => (raised = "none" /\ response.status \in {200, 400, 500})

(***************************************************************************)
(* C7: the port alone selects the transport: implicit TLS (SMTP_SSL) on    *)
(* port 465, a plain connection upgraded by STARTTLS as its next call on   *)
(* any other port; login and send happen only after the connection was     *)
(* secured, and send only after a successful login.                        *)
(***************************************************************************)
Before(i, ops) == \E j \in 1..(i - 1) : smtpLog[j].op \in ops /\ smtpLog[j].ok

C7_TransportByPort ==
    \A i \in 1..Len(smtpLog) :
        /\ IsConnect(smtpLog[i]) => (smtpLog[i].op = "SMTP_SSL" <=> PortIs465)
        /\ smtpLog[i].op = "SMTP" =>
               (i < Len(smtpLog) => smtpLog[i + 1].op = "starttls")
        /\ smtpLog[i].op = "starttls" => (~PortIs465 /\ Before(i, {"SMTP"}))
        /\ smtpLog[i].op \in {"login", "send_message"} =>
               \/ PortIs465 /\ Before(i, {"SMTP_SSL"})
               \/ ~PortIs465 /\ Before(i, {"starttls"})
        /\ smtpLog[i].op = "send_message" => Before(i, {"login"})

\* A message sent on port 587 after the upgrade.
C7_Witness ==
    /\ PortIsOther
    /\ Succeeded("SMTP") /\ Succeeded("starttls") /\ Succeeded("login")
    /\ Succeeded("send_message")

(***************************************************************************)
(* C8, as stated: a payload with the four required fields non-blank is     *)
(* never rejected for a phone that is absent, empty or blank; the email    *)
(* then has the Phone line "Phone: <em dash>" and a subject containing the *)
(* service; and with a complete configuration and a server that accepts    *)
(* every step the response is 200 "Quote request sent".                    *)
(***************************************************************************)
PhoneLeftOut == Blank(request.fields["phone"])

\* text holds part as a contiguous run of chunks.
Contains(text, part) ==
    \E k \in 0..(Len(text) - Len(part)) : SubSeq(text, k + 1, k + Len(part)) = part

PlaceholderAndService ==
    /\ Contains(msg.content, <<"\n", "Phone: ", EmDash, "\n">>)
    /\ request.fields["service"].s # <<>>
    /\ Contains(msg.Subject, request.fields["service"].s)

\* Neither the 400 of a missing field nor the AttributeError of a phone
\* that cannot be trimmed.
PhoneOptional ==
    /\ response.status # 400
    /\ raised # "AttributeError"
    /\ (pc # "done" \/ response.status = 200) => (msg.built /\ PlaceholderAndService)

C8_Original ==
    (ValidPayload /\ PhoneLeftOut) =>
        /\ PhoneOptional
        /\ (Done /\ CompleteConfig /\ AllAccepted) => IsSuccess

(***************************************************************************)
(* C8, amended: the same, the success response being promised for a        *)
(* payload whose service and email hold no line break.                     *)
(***************************************************************************)
C8_PhoneOptional ==
    (ValidPayload /\ PhoneLeftOut) =>
        /\ PhoneOptional
        /\ (Done /\ HeadersBuildable /\ CompleteConfig /\ AllAccepted) => IsSuccess

\* The spec's scenario: no phone at all, and the request is sent.
C8_Witness ==
    /\ Done
    /\ ValidPayload
    /\ request.fields["phone"] = None
    /\ CompleteConfig
    /\ IsSuccess
    /\ PlaceholderAndService

(***************************************************************************)
(* C9: a submission ends on exactly one of the paths Rejected (400), Sent  *)
(* (200) or SendFailed (500); 200 only after send_message succeeded; at    *)
(* most one connection is attempted; nothing is attempted again after a    *)
(* failed connect, login or send.                                          *)
(***************************************************************************)
Rejected == response.status = 400 /\ ~response.success /\ NoNetwork /\ ~msg.built

SentPath == response.status = 200 /\ response.success /\ Succeeded("send_message")

SendFailedPath == response.status = 500 /\ ~response.success

NoRetry ==
    /\ Count({"SMTP_SSL", "SMTP"}) <= 1
    /\ Count({"login"}) <= 1
    /\ Count({"send_message"}) <= 1
    /\ \A i \in 1..Len(smtpLog) :
           (smtpLog[i].op \in SessionSteps /\ ~smtpLog[i].ok)
               => \A j \in (i + 1)..Len(smtpLog) : smtpLog[j].op \in {"QUIT", "close"}

C9_ThreePaths ==
    /\ NoRetry
    /\ (response.status = 200 /\ response.success) => Succeeded("send_message")
    /\ (Done /\ IsPayload /\ request.fields["phone"].k # "int") =>
           /\ raised = "none"
           /\ Rejected \/ SentPath \/ SendFailedPath

(***************************************************************************)
(* C10: validation comes before the configuration: a payload with a blank  *)
(* required field on a server whose mail configuration is incomplete is    *)
(* answered 400 with the missing-field error, never 500 "Mail server not   *)
(* configured", and the configuration is read only for a valid payload.    *)
(***************************************************************************)
C10_ValidationFirst ==
    /\ (InvalidPayload /\ ~CompleteConfig) =>
           /\ response.status = 400
           /\ Head(response.text) = "Missing: "
    /\ (response.text = <<"Mail server not configured">> \/ raised = "ValueError")
           => (IsPayload /\ BlankFields = {})

\* A blank message on a server with no MAIL_HOST.
C10_Witness ==
    /\ request.kind = "object"
    /\ BlankFields = {"message"}
    /\ ~env["MAIL_HOST"].set
    /\ response.status = 400
    /\ response.text = <<"Missing: ", "message">>

====
